---- MODULE Spec2Model ----
(***************************************************************************)
(* The user-account model of foodsaving/users/models.py: UserManager and   *)
(* User, with the verification codes, group memberships and outgoing mail  *)
(* the methods of User act on.                                             *)
(*                                                                         *)
(* Strings are sequences of character codes, so that normalize_email can   *)
(* be computed on the characters; the empty string is the empty sequence.  *)
(* Python's None is a value of its own, <<-1>>, which is no string.  The   *)
(* case mappings are those of str.lower() and str.upper() on every code    *)
(* point (Unicode 14.0), the final form of the capital sigma included.     *)
(*                                                                         *)
(* A request works on the stored row of the user.  The methods decorated   *)
(* with transaction.atomic discard every row they wrote when an exception  *)
(* is raised anywhere in them; what they did to the photo files and the    *)
(* mails they handed to the mailer stay.  An operation is computed as a    *)
(* function on a transaction record St (rows, photo files, mails handed to *)
(* the mailer, the pending exception) and committed or rolled back by      *)
(* Finish.  failAt names the statement that raises: k > 0 the k-th mail    *)
(* handed to the mailer, k < 0 the -k-th statement sent to the database,   *)
(* 0 none.  A request that is one transaction is one step.                 *)
(* create_superuser is no transaction: it commits the new row, keeps the   *)
(* instance, and writes every column of that instance in a second step,    *)
(* with whatever other requests have committed in between.                 *)
(***************************************************************************)
EXTENDS Integers, Sequences, FiniteSets, TLC

\* ---------------------------------------------------------------- bounds
MaxUsers == 2
MaxOps == 4
MaxTime == 2

\* ------------------------------------------------------------- constants
None == <<-1>>

EMAIL_VERIFICATION == "EMAIL_VERIFICATION"
ACCOUNT_DELETE == "ACCOUNT_DELETE"
PASSWORD_RESET == "PASSWORD_RESET"
CodeTypes == {EMAIL_VERIFICATION, ACCOUNT_DELETE, PASSWORD_RESET}

\* "A@X", "a@x"
EmailInputs == {<<65, 64, 88>>, <<97, 64, 120>>}
\* "q"
PasswordInputs == {<<113>>}
\* no extra field
NoExtraFields == [f \in {} |-> FALSE]
\* the other arguments of a sign-up: password "p", display name "n", and the
\* keyword arguments handed on to the constructor of the model
PlainProfiles ==
    {[password |-> <<112>>, display_name |-> <<110>>, is_active |-> TRUE,
      extra_fields |-> [description |-> "d", photo |-> TRUE, mail_verified |-> TRUE]],
     [password |-> <<112>>, display_name |-> None, is_active |-> TRUE,
      extra_fields |-> NoExtraFields]}
\* and the sign-up of a staff member with all permissions
Profiles ==
    PlainProfiles \cup
    {[password |-> <<112>>, display_name |-> <<110>>, is_active |-> TRUE,
      extra_fields |-> [is_staff |-> TRUE, is_superuser |-> TRUE]]}
\* the arguments of create_superuser: an email or none without keyword
\* arguments, and "A@X" with a display name "n"
SuperuserInputs ==
    {[email |-> e, extra_fields |-> NoExtraFields] : e \in EmailInputs \cup {None}}
        \cup {[email |-> <<65, 64, 88>>, extra_fields |-> [display_name |-> <<110>>]]}
Groups == {"g1", "g2"}

VARIABLES users, codes, nextCode, memberships, groups, files, pending, last, sent, ops

vars == <<users, codes, nextCode, memberships, groups, files, pending, last, sent, ops>>

\* --------------------------------------------------------- pure helpers
\* the runs <<first, last, step, d>> of str.lower(): the character c of a run,
\* first + k * step up to last, has the lower case c + d
LowerRuns ==
    <<  <<65, 90, 1, 32>>, <<192, 214, 1, 32>>, <<216, 222, 1, 32>>,
        <<256, 302, 2, 1>>, <<306, 310, 2, 1>>, <<313, 327, 2, 1>>,
        <<330, 374, 2, 1>>, <<376, 376, 1, -121>>, <<377, 381, 2, 1>>,
        <<385, 385, 1, 210>>, <<386, 388, 2, 1>>, <<390, 390, 1, 206>>,
        <<391, 391, 1, 1>>, <<393, 394, 1, 205>>, <<395, 395, 1, 1>>,
        <<398, 398, 1, 79>>, <<399, 399, 1, 202>>, <<400, 400, 1, 203>>,
        <<401, 401, 1, 1>>, <<403, 403, 1, 205>>, <<404, 404, 1, 207>>,
        <<406, 406, 1, 211>>, <<407, 407, 1, 209>>, <<408, 408, 1, 1>>,
        <<412, 412, 1, 211>>, <<413, 413, 1, 213>>, <<415, 415, 1, 214>>,
        <<416, 420, 2, 1>>, <<422, 422, 1, 218>>, <<423, 423, 1, 1>>,
        <<425, 425, 1, 218>>, <<428, 428, 1, 1>>, <<430, 430, 1, 218>>,
        <<431, 431, 1, 1>>, <<433, 434, 1, 217>>, <<435, 437, 2, 1>>,
        <<439, 439, 1, 219>>, <<440, 440, 1, 1>>, <<444, 444, 1, 1>>,
        <<452, 452, 1, 2>>, <<453, 453, 1, 1>>, <<455, 455, 1, 2>>,
        <<456, 456, 1, 1>>, <<458, 458, 1, 2>>, <<459, 475, 2, 1>>,
        <<478, 494, 2, 1>>, <<497, 497, 1, 2>>, <<498, 500, 2, 1>>,
        <<502, 502, 1, -97>>, <<503, 503, 1, -56>>, <<504, 542, 2, 1>>,
        <<544, 544, 1, -130>>, <<546, 562, 2, 1>>, <<570, 570, 1, 10795>>,
        <<571, 571, 1, 1>>, <<573, 573, 1, -163>>, <<574, 574, 1, 10792>>,
        <<577, 577, 1, 1>>, <<579, 579, 1, -195>>, <<580, 580, 1, 69>>,
        <<581, 581, 1, 71>>, <<582, 590, 2, 1>>, <<880, 882, 2, 1>>,
        <<886, 886, 1, 1>>, <<895, 895, 1, 116>>, <<902, 902, 1, 38>>,
        <<904, 906, 1, 37>>, <<908, 908, 1, 64>>, <<910, 911, 1, 63>>,
        <<913, 929, 1, 32>>, <<931, 939, 1, 32>>, <<975, 975, 1, 8>>,
        <<984, 1006, 2, 1>>, <<1012, 1012, 1, -60>>, <<1015, 1015, 1, 1>>,
        <<1017, 1017, 1, -7>>, <<1018, 1018, 1, 1>>, <<1021, 1023, 1, -130>>,
        <<1024, 1039, 1, 80>>, <<1040, 1071, 1, 32>>, <<1120, 1152, 2, 1>>,
        <<1162, 1214, 2, 1>>, <<1216, 1216, 1, 15>>, <<1217, 1229, 2, 1>>,
        <<1232, 1326, 2, 1>>, <<1329, 1366, 1, 48>>, <<4256, 4293, 1, 7264>>,
        <<4295, 4295, 1, 7264>>, <<4301, 4301, 1, 7264>>, <<5024, 5103, 1, 38864>>,
        <<5104, 5109, 1, 8>>, <<7312, 7354, 1, -3008>>, <<7357, 7359, 1, -3008>>,
        <<7680, 7828, 2, 1>>, <<7838, 7838, 1, -7615>>, <<7840, 7934, 2, 1>>,
        <<7944, 7951, 1, -8>>, <<7960, 7965, 1, -8>>, <<7976, 7983, 1, -8>>,
        <<7992, 7999, 1, -8>>, <<8008, 8013, 1, -8>>, <<8025, 8031, 2, -8>>,
        <<8040, 8047, 1, -8>>, <<8072, 8079, 1, -8>>, <<8088, 8095, 1, -8>>,
        <<8104, 8111, 1, -8>>, <<8120, 8121, 1, -8>>, <<8122, 8123, 1, -74>>,
        <<8124, 8124, 1, -9>>, <<8136, 8139, 1, -86>>, <<8140, 8140, 1, -9>>,
        <<8152, 8153, 1, -8>>, <<8154, 8155, 1, -100>>, <<8168, 8169, 1, -8>>,
        <<8170, 8171, 1, -112>>, <<8172, 8172, 1, -7>>, <<8184, 8185, 1, -128>>,
        <<8186, 8187, 1, -126>>, <<8188, 8188, 1, -9>>, <<8486, 8486, 1, -7517>>,
        <<8490, 8490, 1, -8383>>, <<8491, 8491, 1, -8262>>, <<8498, 8498, 1, 28>>,
        <<8544, 8559, 1, 16>>, <<8579, 8579, 1, 1>>, <<9398, 9423, 1, 26>>,
        <<11264, 11311, 1, 48>>, <<11360, 11360, 1, 1>>,
        <<11362, 11362, 1, -10743>>, <<11363, 11363, 1, -3814>>,
        <<11364, 11364, 1, -10727>>, <<11367, 11371, 2, 1>>,
        <<11373, 11373, 1, -10780>>, <<11374, 11374, 1, -10749>>,
        <<11375, 11375, 1, -10783>>, <<11376, 11376, 1, -10782>>,
        <<11378, 11378, 1, 1>>, <<11381, 11381, 1, 1>>,
        <<11390, 11391, 1, -10815>>, <<11392, 11490, 2, 1>>,
        <<11499, 11501, 2, 1>>, <<11506, 11506, 1, 1>>, <<42560, 42604, 2, 1>>,
        <<42624, 42650, 2, 1>>, <<42786, 42798, 2, 1>>, <<42802, 42862, 2, 1>>,
        <<42873, 42875, 2, 1>>, <<42877, 42877, 1, -35332>>,
        <<42878, 42886, 2, 1>>, <<42891, 42891, 1, 1>>,
        <<42893, 42893, 1, -42280>>, <<42896, 42898, 2, 1>>,
        <<42902, 42920, 2, 1>>, <<42922, 42922, 1, -42308>>,
        <<42923, 42923, 1, -42319>>, <<42924, 42924, 1, -42315>>,
        <<42925, 42925, 1, -42305>>, <<42926, 42926, 1, -42308>>,
        <<42928, 42928, 1, -42258>>, <<42929, 42929, 1, -42282>>,
        <<42930, 42930, 1, -42261>>, <<42931, 42931, 1, 928>>,
        <<42932, 42946, 2, 1>>, <<42948, 42948, 1, -48>>,
        <<42949, 42949, 1, -42307>>, <<42950, 42950, 1, -35384>>,
        <<42951, 42953, 2, 1>>, <<42960, 42960, 1, 1>>, <<42966, 42968, 2, 1>>,
        <<42997, 42997, 1, 1>>, <<65313, 65338, 1, 32>>, <<66560, 66599, 1, 40>>,
        <<66736, 66771, 1, 40>>, <<66928, 66964, 2, 39>>, <<66929, 66937, 2, 39>>,
        <<66941, 66953, 2, 39>>, <<66957, 66961, 2, 39>>, <<66965, 66965, 1, 39>>,
        <<68736, 68786, 1, 64>>, <<71840, 71871, 1, 32>>, <<93760, 93791, 1, 32>>,
        <<125184, 125217, 1, 34>> >>

\* str.lower() on one character out of context, a string of one or two
\* characters; the ASCII characters first, as the interpreter does
LowerChar(c) ==
    IF c < 128 THEN (IF c \in 65..90 THEN <<c + 32>> ELSE <<c>>)
    ELSE IF c = 304 THEN <<105, 775>>
    ELSE LET r == {i \in DOMAIN LowerRuns :
                      /\ c >= LowerRuns[i][1]
                      /\ c <= LowerRuns[i][2]
                      /\ (c - LowerRuns[i][1]) % LowerRuns[i][3] = 0}
         IN  IF r = {} THEN <<c>> ELSE <<c + LowerRuns[CHOOSE i \in r : TRUE][4]>>

\* the ranges <<first, last>> of the characters str.lower() skips when it
\* looks for the letter before and after a capital sigma (case-ignorable)
CaseIgnorableRanges ==
    <<  <<39, 39>>, <<46, 46>>, <<58, 58>>, <<94, 94>>, <<96, 96>>, <<168, 168>>,
        <<173, 173>>, <<175, 175>>, <<180, 180>>, <<183, 184>>, <<688, 879>>,
        <<884, 885>>, <<890, 890>>, <<900, 901>>, <<903, 903>>, <<1155, 1161>>,
        <<1369, 1369>>, <<1375, 1375>>, <<1425, 1469>>, <<1471, 1471>>,
        <<1473, 1474>>, <<1476, 1477>>, <<1479, 1479>>, <<1524, 1524>>,
        <<1536, 1541>>, <<1552, 1562>>, <<1564, 1564>>, <<1600, 1600>>,
        <<1611, 1631>>, <<1648, 1648>>, <<1750, 1757>>, <<1759, 1768>>,
        <<1770, 1773>>, <<1807, 1807>>, <<1809, 1809>>, <<1840, 1866>>,
        <<1958, 1968>>, <<2027, 2037>>, <<2042, 2042>>, <<2045, 2045>>,
        <<2070, 2093>>, <<2137, 2139>>, <<2184, 2184>>, <<2192, 2193>>,
        <<2200, 2207>>, <<2249, 2306>>, <<2362, 2362>>, <<2364, 2364>>,
        <<2369, 2376>>, <<2381, 2381>>, <<2385, 2391>>, <<2402, 2403>>,
        <<2417, 2417>>, <<2433, 2433>>, <<2492, 2492>>, <<2497, 2500>>,
        <<2509, 2509>>, <<2530, 2531>>, <<2558, 2558>>, <<2561, 2562>>,
        <<2620, 2620>>, <<2625, 2626>>, <<2631, 2632>>, <<2635, 2637>>,
        <<2641, 2641>>, <<2672, 2673>>, <<2677, 2677>>, <<2689, 2690>>,
        <<2748, 2748>>, <<2753, 2757>>, <<2759, 2760>>, <<2765, 2765>>,
        <<2786, 2787>>, <<2810, 2815>>, <<2817, 2817>>, <<2876, 2876>>,
        <<2879, 2879>>, <<2881, 2884>>, <<2893, 2893>>, <<2901, 2902>>,
        <<2914, 2915>>, <<2946, 2946>>, <<3008, 3008>>, <<3021, 3021>>,
        <<3072, 3072>>, <<3076, 3076>>, <<3132, 3132>>, <<3134, 3136>>,
        <<3142, 3144>>, <<3146, 3149>>, <<3157, 3158>>, <<3170, 3171>>,
        <<3201, 3201>>, <<3260, 3260>>, <<3263, 3263>>, <<3270, 3270>>,
        <<3276, 3277>>, <<3298, 3299>>, <<3328, 3329>>, <<3387, 3388>>,
        <<3393, 3396>>, <<3405, 3405>>, <<3426, 3427>>, <<3457, 3457>>,
        <<3530, 3530>>, <<3538, 3540>>, <<3542, 3542>>, <<3633, 3633>>,
        <<3636, 3642>>, <<3654, 3662>>, <<3761, 3761>>, <<3764, 3772>>,
        <<3782, 3782>>, <<3784, 3789>>, <<3864, 3865>>, <<3893, 3893>>,
        <<3895, 3895>>, <<3897, 3897>>, <<3953, 3966>>, <<3968, 3972>>,
        <<3974, 3975>>, <<3981, 3991>>, <<3993, 4028>>, <<4038, 4038>>,
        <<4141, 4144>>, <<4146, 4151>>, <<4153, 4154>>, <<4157, 4158>>,
        <<4184, 4185>>, <<4190, 4192>>, <<4209, 4212>>, <<4226, 4226>>,
        <<4229, 4230>>, <<4237, 4237>>, <<4253, 4253>>, <<4348, 4348>>,
        <<4957, 4959>>, <<5906, 5908>>, <<5938, 5939>>, <<5970, 5971>>,
        <<6002, 6003>>, <<6068, 6069>>, <<6071, 6077>>, <<6086, 6086>>,
        <<6089, 6099>>, <<6103, 6103>>, <<6109, 6109>>, <<6155, 6159>>,
        <<6211, 6211>>, <<6277, 6278>>, <<6313, 6313>>, <<6432, 6434>>,
        <<6439, 6440>>, <<6450, 6450>>, <<6457, 6459>>, <<6679, 6680>>,
        <<6683, 6683>>, <<6742, 6742>>, <<6744, 6750>>, <<6752, 6752>>,
        <<6754, 6754>>, <<6757, 6764>>, <<6771, 6780>>, <<6783, 6783>>,
        <<6823, 6823>>, <<6832, 6862>>, <<6912, 6915>>, <<6964, 6964>>,
        <<6966, 6970>>, <<6972, 6972>>, <<6978, 6978>>, <<7019, 7027>>,
        <<7040, 7041>>, <<7074, 7077>>, <<7080, 7081>>, <<7083, 7085>>,
        <<7142, 7142>>, <<7144, 7145>>, <<7149, 7149>>, <<7151, 7153>>,
        <<7212, 7219>>, <<7222, 7223>>, <<7288, 7293>>, <<7376, 7378>>,
        <<7380, 7392>>, <<7394, 7400>>, <<7405, 7405>>, <<7412, 7412>>,
        <<7416, 7417>>, <<7468, 7530>>, <<7544, 7544>>, <<7579, 7679>>,
        <<8125, 8125>>, <<8127, 8129>>, <<8141, 8143>>, <<8157, 8159>>,
        <<8173, 8175>>, <<8189, 8190>>, <<8203, 8207>>, <<8216, 8217>>,
        <<8228, 8228>>, <<8231, 8231>>, <<8234, 8238>>, <<8288, 8292>>,
        <<8294, 8303>>, <<8305, 8305>>, <<8319, 8319>>, <<8336, 8348>>,
        <<8400, 8432>>, <<11388, 11389>>, <<11503, 11505>>, <<11631, 11631>>,
        <<11647, 11647>>, <<11744, 11775>>, <<11823, 11823>>, <<12293, 12293>>,
        <<12330, 12333>>, <<12337, 12341>>, <<12347, 12347>>, <<12441, 12446>>,
        <<12540, 12542>>, <<40981, 40981>>, <<42232, 42237>>, <<42508, 42508>>,
        <<42607, 42610>>, <<42612, 42621>>, <<42623, 42623>>, <<42652, 42655>>,
        <<42736, 42737>>, <<42752, 42785>>, <<42864, 42864>>, <<42888, 42890>>,
        <<42994, 42996>>, <<43000, 43001>>, <<43010, 43010>>, <<43014, 43014>>,
        <<43019, 43019>>, <<43045, 43046>>, <<43052, 43052>>, <<43204, 43205>>,
        <<43232, 43249>>, <<43263, 43263>>, <<43302, 43309>>, <<43335, 43345>>,
        <<43392, 43394>>, <<43443, 43443>>, <<43446, 43449>>, <<43452, 43453>>,
        <<43471, 43471>>, <<43493, 43494>>, <<43561, 43566>>, <<43569, 43570>>,
        <<43573, 43574>>, <<43587, 43587>>, <<43596, 43596>>, <<43632, 43632>>,
        <<43644, 43644>>, <<43696, 43696>>, <<43698, 43700>>, <<43703, 43704>>,
        <<43710, 43711>>, <<43713, 43713>>, <<43741, 43741>>, <<43756, 43757>>,
        <<43763, 43764>>, <<43766, 43766>>, <<43867, 43871>>, <<43881, 43883>>,
        <<44005, 44005>>, <<44008, 44008>>, <<44013, 44013>>, <<64286, 64286>>,
        <<64434, 64450>>, <<65024, 65039>>, <<65043, 65043>>, <<65056, 65071>>,
        <<65106, 65106>>, <<65109, 65109>>, <<65279, 65279>>, <<65287, 65287>>,
        <<65294, 65294>>, <<65306, 65306>>, <<65342, 65342>>, <<65344, 65344>>,
        <<65392, 65392>>, <<65438, 65439>>, <<65507, 65507>>, <<65529, 65531>>,
        <<66045, 66045>>, <<66272, 66272>>, <<66422, 66426>>, <<67456, 67461>>,
        <<67463, 67504>>, <<67506, 67514>>, <<68097, 68099>>, <<68101, 68102>>,
        <<68108, 68111>>, <<68152, 68154>>, <<68159, 68159>>, <<68325, 68326>>,
        <<68900, 68903>>, <<69291, 69292>>, <<69446, 69456>>, <<69506, 69509>>,
        <<69633, 69633>>, <<69688, 69702>>, <<69744, 69744>>, <<69747, 69748>>,
        <<69759, 69761>>, <<69811, 69814>>, <<69817, 69818>>, <<69821, 69821>>,
        <<69826, 69826>>, <<69837, 69837>>, <<69888, 69890>>, <<69927, 69931>>,
        <<69933, 69940>>, <<70003, 70003>>, <<70016, 70017>>, <<70070, 70078>>,
        <<70089, 70092>>, <<70095, 70095>>, <<70191, 70193>>, <<70196, 70196>>,
        <<70198, 70199>>, <<70206, 70206>>, <<70367, 70367>>, <<70371, 70378>>,
        <<70400, 70401>>, <<70459, 70460>>, <<70464, 70464>>, <<70502, 70508>>,
        <<70512, 70516>>, <<70712, 70719>>, <<70722, 70724>>, <<70726, 70726>>,
        <<70750, 70750>>, <<70835, 70840>>, <<70842, 70842>>, <<70847, 70848>>,
        <<70850, 70851>>, <<71090, 71093>>, <<71100, 71101>>, <<71103, 71104>>,
        <<71132, 71133>>, <<71219, 71226>>, <<71229, 71229>>, <<71231, 71232>>,
        <<71339, 71339>>, <<71341, 71341>>, <<71344, 71349>>, <<71351, 71351>>,
        <<71453, 71455>>, <<71458, 71461>>, <<71463, 71467>>, <<71727, 71735>>,
        <<71737, 71738>>, <<71995, 71996>>, <<71998, 71998>>, <<72003, 72003>>,
        <<72148, 72151>>, <<72154, 72155>>, <<72160, 72160>>, <<72193, 72202>>,
        <<72243, 72248>>, <<72251, 72254>>, <<72263, 72263>>, <<72273, 72278>>,
        <<72281, 72283>>, <<72330, 72342>>, <<72344, 72345>>, <<72752, 72758>>,
        <<72760, 72765>>, <<72767, 72767>>, <<72850, 72871>>, <<72874, 72880>>,
        <<72882, 72883>>, <<72885, 72886>>, <<73009, 73014>>, <<73018, 73018>>,
        <<73020, 73021>>, <<73023, 73029>>, <<73031, 73031>>, <<73104, 73105>>,
        <<73109, 73109>>, <<73111, 73111>>, <<73459, 73460>>, <<78896, 78904>>,
        <<92912, 92916>>, <<92976, 92982>>, <<92992, 92995>>, <<94031, 94031>>,
        <<94095, 94111>>, <<94176, 94177>>, <<94179, 94180>>, <<110576, 110579>>,
        <<110581, 110587>>, <<110589, 110590>>, <<113821, 113822>>,
        <<113824, 113827>>, <<118528, 118573>>, <<118576, 118598>>,
        <<119143, 119145>>, <<119155, 119170>>, <<119173, 119179>>,
        <<119210, 119213>>, <<119362, 119364>>, <<121344, 121398>>,
        <<121403, 121452>>, <<121461, 121461>>, <<121476, 121476>>,
        <<121499, 121503>>, <<121505, 121519>>, <<122880, 122886>>,
        <<122888, 122904>>, <<122907, 122913>>, <<122915, 122916>>,
        <<122918, 122922>>, <<123184, 123197>>, <<123566, 123566>>,
        <<123628, 123631>>, <<125136, 125142>>, <<125252, 125259>>,
        <<127995, 127999>>, <<917505, 917505>>, <<917536, 917631>>,
        <<917760, 917999>> >>

CaseIgnorable(c) ==
    \E i \in DOMAIN CaseIgnorableRanges :
        c >= CaseIgnorableRanges[i][1] /\ c <= CaseIgnorableRanges[i][2]

\* the ranges <<first, last>> of the cased characters that are not
\* case-ignorable
CasedRanges ==
    <<  <<65, 90>>, <<97, 122>>, <<170, 170>>, <<181, 181>>, <<186, 186>>,
        <<192, 214>>, <<216, 246>>, <<248, 442>>, <<444, 447>>, <<452, 659>>,
        <<661, 687>>, <<880, 883>>, <<886, 887>>, <<891, 893>>, <<895, 895>>,
        <<902, 902>>, <<904, 906>>, <<908, 908>>, <<910, 929>>, <<931, 1013>>,
        <<1015, 1153>>, <<1162, 1327>>, <<1329, 1366>>, <<1376, 1416>>,
        <<4256, 4293>>, <<4295, 4295>>, <<4301, 4301>>, <<4304, 4346>>,
        <<4349, 4351>>, <<5024, 5109>>, <<5112, 5117>>, <<7296, 7304>>,
        <<7312, 7354>>, <<7357, 7359>>, <<7424, 7467>>, <<7531, 7543>>,
        <<7545, 7578>>, <<7680, 7957>>, <<7960, 7965>>, <<7968, 8005>>,
        <<8008, 8013>>, <<8016, 8023>>, <<8025, 8025>>, <<8027, 8027>>,
        <<8029, 8029>>, <<8031, 8061>>, <<8064, 8116>>, <<8118, 8124>>,
        <<8126, 8126>>, <<8130, 8132>>, <<8134, 8140>>, <<8144, 8147>>,
        <<8150, 8155>>, <<8160, 8172>>, <<8178, 8180>>, <<8182, 8188>>,
        <<8450, 8450>>, <<8455, 8455>>, <<8458, 8467>>, <<8469, 8469>>,
        <<8473, 8477>>, <<8484, 8484>>, <<8486, 8486>>, <<8488, 8488>>,
        <<8490, 8493>>, <<8495, 8500>>, <<8505, 8505>>, <<8508, 8511>>,
        <<8517, 8521>>, <<8526, 8526>>, <<8544, 8575>>, <<8579, 8580>>,
        <<9398, 9449>>, <<11264, 11387>>, <<11390, 11492>>, <<11499, 11502>>,
        <<11506, 11507>>, <<11520, 11557>>, <<11559, 11559>>, <<11565, 11565>>,
        <<42560, 42605>>, <<42624, 42651>>, <<42786, 42863>>, <<42865, 42887>>,
        <<42891, 42894>>, <<42896, 42954>>, <<42960, 42961>>, <<42963, 42963>>,
        <<42965, 42969>>, <<42997, 42998>>, <<43002, 43002>>, <<43824, 43866>>,
        <<43872, 43880>>, <<43888, 43967>>, <<64256, 64262>>, <<64275, 64279>>,
        <<65313, 65338>>, <<65345, 65370>>, <<66560, 66639>>, <<66736, 66771>>,
        <<66776, 66811>>, <<66928, 66938>>, <<66940, 66954>>, <<66956, 66962>>,
        <<66964, 66965>>, <<66967, 66977>>, <<66979, 66993>>, <<66995, 67001>>,
        <<67003, 67004>>, <<68736, 68786>>, <<68800, 68850>>, <<71840, 71903>>,
        <<93760, 93823>>, <<119808, 119892>>, <<119894, 119964>>,
        <<119966, 119967>>, <<119970, 119970>>, <<119973, 119974>>,
        <<119977, 119980>>, <<119982, 119993>>, <<119995, 119995>>,
        <<119997, 120003>>, <<120005, 120069>>, <<120071, 120074>>,
        <<120077, 120084>>, <<120086, 120092>>, <<120094, 120121>>,
        <<120123, 120126>>, <<120128, 120132>>, <<120134, 120134>>,
        <<120138, 120144>>, <<120146, 120485>>, <<120488, 120512>>,
        <<120514, 120538>>, <<120540, 120570>>, <<120572, 120596>>,
        <<120598, 120628>>, <<120630, 120654>>, <<120656, 120686>>,
        <<120688, 120712>>, <<120714, 120744>>, <<120746, 120770>>,
        <<120772, 120779>>, <<122624, 122633>>, <<122635, 122654>>,
        <<125184, 125251>>, <<127280, 127305>>, <<127312, 127337>>,
        <<127344, 127369>> >>

Cased(c) ==
    \E i \in DOMAIN CasedRanges : c >= CasedRanges[i][1] /\ c <= CasedRanges[i][2]

\* the capital sigma at position i of s is a final one: the nearest character
\* before it that is not case-ignorable is cased, and the nearest one after it,
\* if any, is not
final_sigma(s, i) ==
    LET before == {j \in 1..(i - 1) : ~CaseIgnorable(s[j])}
        after == {j \in (i + 1)..Len(s) : ~CaseIgnorable(s[j])}
    IN  /\ before # {}
        /\ Cased(s[CHOOSE j \in before : \A k \in before : k <= j])
        /\ \/ after = {}
           \/ ~Cased(s[CHOOSE j \in after : \A k \in after : j <= k])

\* the lower case of s from position i on
RECURSIVE LowerFrom(_, _)
LowerFrom(s, i) ==
    IF i > Len(s) THEN <<>>
    ELSE (IF s[i] = 931 /\ final_sigma(s, i) THEN <<962>> ELSE LowerChar(s[i]))
             \o LowerFrom(s, i + 1)

\* str.lower()
Lower(s) == LowerFrom(s, 1)

\* str.isspace() on one character
IsSpace(c) ==
    \/ c \in 9..13
    \/ c \in 28..32
    \/ c \in {133, 160, 5760, 8232, 8233, 8239, 8287, 12288}
    \/ c \in 8192..8202

RECURSIVE LStrip(_)
LStrip(s) == IF s # <<>> /\ IsSpace(Head(s)) THEN LStrip(Tail(s)) ELSE s

RECURSIVE RStrip(_)
RStrip(s) == IF s # <<>> /\ IsSpace(s[Len(s)]) THEN RStrip(SubSeq(s, 1, Len(s) - 1)) ELSE s

\* str.strip()
Strip(s) == RStrip(LStrip(s))

\* position of the last "@" of s, 0 when there is none
LastAt(s) == IF \E i \in 1..Len(s) : s[i] = 64
             THEN CHOOSE i \in 1..Len(s) : s[i] = 64 /\ \A j \in (i + 1)..Len(s) : s[j] # 64
             ELSE 0

\* BaseUserManager.normalize_email: strip, then lower-case the domain part only
normalize_email(email) ==
    LET e == IF email = None THEN <<>> ELSE email
        s == Strip(e)
        k == LastAt(s)
    IN  IF k = 0 THEN e
        ELSE SubSeq(s, 1, k - 1) \o <<64>> \o Lower(SubSeq(s, k + 1, Len(s)))

Unusable == [usable |-> FALSE, hash |-> <<>>]

\* AbstractBaseUser.set_password's make_password: None makes an unusable password
make_password(raw) == IF raw = None THEN Unusable ELSE [usable |-> TRUE, hash |-> raw]

\* ------------------------------------------------------ the transaction
St0(failAt) == [users |-> users, codes |-> codes, nextCode |-> nextCode,
                memberships |-> memberships, groups |-> groups, files |-> files,
                sent |-> <<>>, err |-> "ok", failAt |-> failAt, statements |-> 0]

Raise(st, e) == IF st.err = "ok" THEN [st EXCEPT !.err = e] ELSE st

\* one statement sent to the database: it raises when it is the one failAt names
Statement(st) ==
    IF st.err # "ok" THEN st
    ELSE IF st.failAt = -(st.statements + 1)
         THEN Raise([st EXCEPT !.statements = @ + 1], "DatabaseError")
    ELSE [st EXCEPT !.statements = @ + 1]

\* VerificationCode.objects.filter(user=u, type=t).delete()
DeleteCodes(st, u, t) ==
    LET s == Statement(st)
    IN  IF s.err # "ok" THEN s
        ELSE [s EXCEPT !.codes = {c \in @ : ~(c.user = u /\ c.type = t)}]

\* VerificationCode.objects.create(user=u, type=t)
CreateCode(st, u, t) ==
    LET s == Statement(st)
    IN  IF s.err # "ok" THEN s
        ELSE [s EXCEPT !.codes = @ \cup {[id |-> s.nextCode, user |-> u, type |-> t]},
                       !.nextCode = @ + 1]

\* VerificationCode.objects.get(user=u, type=t)
GetCode(st, u, t) ==
    LET s == Statement(st)
        found == {c \in s.codes : c.user = u /\ c.type = t}
    IN  IF s.err # "ok" THEN s
        ELSE IF found = {} THEN Raise(s, "DoesNotExist")
        ELSE IF Cardinality(found) > 1 THEN Raise(s, "MultipleObjectsReturned")
        ELSE s

\* prepare_email(...).send() / prepare_mailverification_email(...).send()
Send(st, tpl, u) ==
    IF st.err # "ok" THEN st
    ELSE IF Len(st.sent) + 1 = st.failAt THEN Raise(st, "MailError")
    ELSE [st EXCEPT !.sent = Append(@, [tpl |-> tpl, user |-> u])]

\* Model.save(): the unique constraint on email (NULLs never collide, empty
\* strings do) and the NOT NULL constraint on display_name
save(st, u) ==
    LET s == Statement(st)
    IN  IF s.err # "ok" THEN s
        ELSE IF s.users[u].display_name = None THEN Raise(s, "IntegrityError")
        ELSE IF s.users[u].email # None
                /\ \E v \in DOMAIN s.users : v # u /\ s.users[v].email = s.users[u].email
             THEN Raise(s, "IntegrityError")
        ELSE s

\* assignment to fields of the instance
Assign(st, u, rec) == IF st.err # "ok" THEN st ELSE [st EXCEPT !.users[u] = rec]

\* ------------------------------------------------------- User's methods
unverify_mail(st, u) ==
    LET s1 == DeleteCodes(st, u, EMAIL_VERIFICATION)
        s2 == CreateCode(s1, u, EMAIL_VERIFICATION)
        s3 == IF s2.err # "ok" THEN s2
              ELSE Assign(s2, u, [s2.users[u] EXCEPT !.mail_verified = FALSE])
    IN  save(s3, u)

\* verify_mail without the promotion of unverified_email
verify_mail_without_promotion(st, u) ==
    LET s1 == DeleteCodes(st, u, EMAIL_VERIFICATION)
        s2 == IF s1.err # "ok" THEN s1
              ELSE Assign(s1, u, [s1.users[u] EXCEPT !.mail_verified = TRUE])
    IN  save(s2, u)

verify_mail(st, u) ==
    LET s1 == DeleteCodes(st, u, EMAIL_VERIFICATION)
        s2 == IF s1.err # "ok" THEN s1
              ELSE Assign(s1, u, [s1.users[u] EXCEPT !.email = s1.users[u].unverified_email,
                                                     !.mail_verified = TRUE])
    IN  save(s2, u)

send_mail_verification_code(st, u) ==
    LET s1 == unverify_mail(st, u)
        s2 == GetCode(s1, u, EMAIL_VERIFICATION)
    IN  Send(s2, "mailverification", u)

send_mail_change_notification(st, u) == Send(st, "changemail_notice", u)

\* update_email writing the new address into the canonical slot as well
update_email_into_email(st, u, unverified_email) ==
    LET s1 == Assign(st, u, [st.users[u] EXCEPT !.unverified_email = unverified_email,
                                                !.email = unverified_email])
        s2 == send_mail_change_notification(s1, u)
    IN  send_mail_verification_code(s2, u)

update_email(st, u, unverified_email) ==
    LET s1 == Assign(st, u, [st.users[u] EXCEPT !.unverified_email = unverified_email])
        s2 == send_mail_change_notification(s1, u)
    IN  send_mail_verification_code(s2, u)

\* restore_email without the deletion of the pending code
restore_email_keeping_code(st, u) ==
    LET s2 == Assign(st, u, [st.users[u] EXCEPT !.unverified_email = st.users[u].email,
                                                !.mail_verified = TRUE])
    IN  save(s2, u)

restore_email(st, u) ==
    LET s1 == DeleteCodes(st, u, EMAIL_VERIFICATION)
        s2 == IF s1.err # "ok" THEN s1
              ELSE Assign(s1, u, [s1.users[u] EXCEPT !.unverified_email = s1.users[u].email,
                                                     !.mail_verified = TRUE])
    IN  save(s2, u)

\* sets the attribute of the instance; the method does not save
update_language(st, u, language) ==
    Assign(st, u, [st.users[u] EXCEPT !.language = language])

send_welcome_mail(st, u) ==
    LET s1 == unverify_mail(st, u)
        s2 == GetCode(s1, u, EMAIL_VERIFICATION)
    IN  Send(s2, "mailverification", u)

\* send_account_deletion_verification_code without the deletion of the old code
send_account_deletion_verification_code_keeping_old(st, u) ==
    LET s2 == CreateCode(st, u, ACCOUNT_DELETE)
    IN  Send(s2, "accountdelete_request", u)

send_account_deletion_verification_code(st, u) ==
    LET s1 == DeleteCodes(st, u, ACCOUNT_DELETE)
        s2 == CreateCode(s1, u, ACCOUNT_DELETE)
    IN  Send(s2, "accountdelete_request", u)

\* reset_password whose deletion filters by user only: the account's codes of
\* every purpose are deleted
reset_password_deleting_all_codes(st, u) ==
    LET s0 == Statement(st)
        s1 == IF s0.err # "ok" THEN s0
              ELSE [s0 EXCEPT !.codes = {c \in @ : c.user # u}]
        s2 == CreateCode(s1, u, PASSWORD_RESET)
        s3 == GetCode(s2, u, PASSWORD_RESET)
    IN  Send(s3, "passwordreset", u)

reset_password(st, u) ==
    LET s1 == DeleteCodes(st, u, PASSWORD_RESET)
        s2 == CreateCode(s1, u, PASSWORD_RESET)
        s3 == GetCode(s2, u, PASSWORD_RESET)
    IN  Send(s3, "passwordreset", u)

\* change_password without the deletion of the PASSWORD_RESET codes
change_password_keeping_reset_code(st, u, new_password) ==
    LET s1 == Assign(st, u, [st.users[u] EXCEPT !.password = make_password(new_password)])
        s2 == save(s1, u)
    IN  Send(s2, "passwordchange", u)

change_password(st, u, new_password) ==
    LET s1 == Assign(st, u, [st.users[u] EXCEPT !.password = make_password(new_password)])
        s2 == save(s1, u)
        s3 == Send(s2, "passwordchange", u)
    IN  DeleteCodes(s3, u, PASSWORD_RESET)

\* self.photo.delete_all_created_images(); self.photo.delete(save=False): the
\* files leave the image store at once, the attribute of the instance is cleared
delete_photo(st, u) ==
    IF st.err # "ok" THEN st
    ELSE [st EXCEPT !.files = @ \ {u}, !.users[u].photo = FALSE]

\* GroupMembership.objects.filter(group=g, user=u).delete(), one statement for
\* each group of gs
RECURSIVE DeleteMembershipsIn(_, _, _)
DeleteMembershipsIn(st, u, gs) ==
    IF gs = {} THEN st
    ELSE LET g == CHOOSE x \in gs : TRUE
             s == Statement(st)
         IN  IF s.err # "ok" THEN s
             ELSE DeleteMembershipsIn([s EXCEPT !.memberships = @ \ {<<g, u>>}],
                                      u, gs \ {g})

\* the membership query without user=self: every membership is deleted
DeleteMemberships_of_everyone(st, u) ==
    LET s == Statement(st)
    IN  IF s.err # "ok" THEN s
        ELSE [s EXCEPT !.memberships = {}]

\* the loop over Group.objects.filter(members__in=[self]) deleting each membership
DeleteMemberships(st, u) ==
    LET s == Statement(st)
    IN  IF s.err # "ok" THEN s
        ELSE DeleteMembershipsIn(s, u, {m[1] : m \in {n \in s.memberships : n[2] = u}})

\* delete_ without is_staff = False
delete_keeping_staff(st, u, t) ==
    LET s1 == DeleteMemberships(st, u)
        s2 == IF s1.err # "ok" THEN s1
              ELSE Assign(s1, u, [s1.users[u] EXCEPT !.description = "",
                                                     !.password = Unusable,
                                                     !.is_active = FALSE,
                                                     !.mail_verified = FALSE,
                                                     !.unverified_email = None,
                                                     !.deleted_at = t,
                                                     !.deleted = TRUE])
        s3 == delete_photo(s2, u)
        s4 == save(s3, u)
    IN  Send(s4, "accountdelete_success", u)

\* delete_ without deleted_at = timezone.now()
delete_without_deleted_at(st, u, t) ==
    LET s1 == DeleteMemberships(st, u)
        s2 == IF s1.err # "ok" THEN s1
              ELSE Assign(s1, u, [s1.users[u] EXCEPT !.description = "",
                                                     !.password = Unusable,
                                                     !.is_active = FALSE,
                                                     !.is_staff = FALSE,
                                                     !.mail_verified = FALSE,
                                                     !.unverified_email = None,
                                                     !.deleted = TRUE])
        s3 == delete_photo(s2, u)
        s4 == save(s3, u)
    IN  Send(s4, "accountdelete_success", u)

\* delete_ that also deletes the account's verification codes
delete_with_codes(st, u, t) ==
    LET s1 == DeleteMemberships(st, u)
        s2 == IF s1.err # "ok" THEN s1
              ELSE Assign([s1 EXCEPT !.codes = {c \in @ : c.user # u}], u,
                          [s1.users[u] EXCEPT !.description = "",
                                              !.password = Unusable,
                                              !.is_active = FALSE,
                                              !.is_staff = FALSE,
                                              !.mail_verified = FALSE,
                                              !.unverified_email = None,
                                              !.deleted_at = t,
                                              !.deleted = TRUE])
        s3 == delete_photo(s2, u)
        s4 == save(s3, u)
    IN  Send(s4, "accountdelete_success", u)

\* delete_ assigns self.mail, an attribute that is no field of the model:
\* the email column keeps its value
delete_(st, u, t) ==
    LET s1 == DeleteMemberships(st, u)
        s2 == IF s1.err # "ok" THEN s1
              ELSE Assign(s1, u, [s1.users[u] EXCEPT !.description = "",
                                                     !.password = Unusable,
                                                     !.is_active = FALSE,
                                                     !.is_staff = FALSE,
                                                     !.mail_verified = FALSE,
                                                     !.unverified_email = None,
                                                     !.deleted_at = t,
                                                     !.deleted = TRUE])
        s3 == delete_photo(s2, u)
        s4 == save(s3, u)
    IN  Send(s4, "accountdelete_success", u)

\* the permission read from is_staff
has_perm_of_staff(u) == users[u].is_staff

has_perm(u) == users[u].is_superuser

has_module_perms(u) == users[u].is_superuser

\* ------------------------------------------------ UserManager's methods
\* _validate_email without the check for None
validate_email_unchecked(st, email) == st

validate_email(st, email) == IF email = None THEN Raise(st, "ValueError") ELSE st

\* the defaults of the fields that _create_user does not pass to the model
FieldDefaults ==
    [is_staff |-> FALSE, is_superuser |-> FALSE, description |-> "", language |-> "en",
     mail_verified |-> FALSE, deleted |-> FALSE, deleted_at |-> 0, photo |-> FALSE]

\* self.model(email=email, is_active=is_active, display_name=display_name,
\* **extra_fields) with extra_fields['unverified_email'] = email, and
\* set_password on the instance
NewUser(email, password, display_name, is_active, extra_fields) ==
    LET fields == [email |-> email, is_active |-> is_active,
                   display_name |-> display_name, unverified_email |-> email]
                      @@ extra_fields @@ FieldDefaults
    IN  [f \in DOMAIN fields \cup {"password"} |->
            IF f = "password" THEN make_password(password) ELSE fields[f]]

\* _create_user storing the email as given
create_user_unnormalized(st, pk, email, password, display_name, is_active, extra_fields) ==
    LET s1 == validate_email(st, email)
        user == NewUser(email, password, display_name, is_active, extra_fields)
        s2 == IF s1.err # "ok" THEN s1
              ELSE [s1 EXCEPT !.users = @ @@ (pk :> user),
                              !.files = IF user.photo THEN @ \cup {pk} ELSE @]
        s3 == save(s2, pk)
    IN  send_welcome_mail(s3, pk)

create_user_(st, pk, email, password, display_name, is_active, extra_fields) ==
    LET s1 == validate_email(st, email)
        user == NewUser(normalize_email(email), password, display_name, is_active,
                        extra_fields)
        s2 == IF s1.err # "ok" THEN s1
              ELSE [s1 EXCEPT !.users = @ @@ (pk :> user),
                              !.files = IF user.photo THEN @ \cup {pk} ELSE @]
        s3 == save(s2, pk)
    IN  send_welcome_mail(s3, pk)

\* create_superuser, its call of _create_user: the email is the display name,
\* so a display_name among the extra fields is a second value for that
\* argument and the call raises TypeError before anything is done; an
\* is_active among the extra fields is the is_active of _create_user; the call
\* is a transaction of its own
create_superuser_create_user(st, pk, email, password, extra_fields) ==
    IF "display_name" \in DOMAIN extra_fields THEN Raise(st, "TypeError")
    ELSE create_user_(st, pk, email, password, email,
                      IF "is_active" \in DOMAIN extra_fields
                      THEN extra_fields.is_active ELSE TRUE,
                      [f \in DOMAIN extra_fields \ {"is_active"} |-> extra_fields[f]])

\* create_superuser after _create_user has returned: the two flags on the
\* instance user that _create_user returned, and a second save(), outside every
\* transaction, that writes every column of the instance over the stored row
create_superuser_save(st, pk, user) ==
    LET s1 == Assign(st, pk, [user EXCEPT !.is_superuser = TRUE, !.is_staff = TRUE])
    IN  save(s1, pk)

\* the case-insensitive comparison of the database on one character: the
\* letters A-Z and a-z are equal, every other character only to itself
FoldChar(c) == IF c \in 65..90 THEN c + 32 ELSE c

\* email__iexact: NULL matches no string, and the lookup of None is IS NULL
iexact(a, b) ==
    IF a = None \/ b = None THEN a = b
    ELSE /\ Len(a) = Len(b)
         /\ \A i \in 1..Len(a) : FoldChar(a[i]) = FoldChar(b[i])

filter_by_similar_email(email) == {u \in DOMAIN users : iexact(users[u].email, email)}

\* the runs <<first, last, step, d>> of str.upper(): the character c of a run
\* has the upper case c + d
UpperRuns ==
    <<  <<97, 122, 1, -32>>, <<181, 181, 1, 743>>, <<224, 246, 1, -32>>,
        <<248, 254, 1, -32>>, <<255, 255, 1, 121>>, <<257, 303, 2, -1>>,
        <<305, 305, 1, -232>>, <<307, 311, 2, -1>>, <<314, 328, 2, -1>>,
        <<331, 375, 2, -1>>, <<378, 382, 2, -1>>, <<383, 383, 1, -300>>,
        <<384, 384, 1, 195>>, <<387, 389, 2, -1>>, <<392, 392, 1, -1>>,
        <<396, 396, 1, -1>>, <<402, 402, 1, -1>>, <<405, 405, 1, 97>>,
        <<409, 409, 1, -1>>, <<410, 410, 1, 163>>, <<414, 414, 1, 130>>,
        <<417, 421, 2, -1>>, <<424, 424, 1, -1>>, <<429, 429, 1, -1>>,
        <<432, 432, 1, -1>>, <<436, 438, 2, -1>>, <<441, 441, 1, -1>>,
        <<445, 445, 1, -1>>, <<447, 447, 1, 56>>, <<453, 453, 1, -1>>,
        <<454, 454, 1, -2>>, <<456, 456, 1, -1>>, <<457, 457, 1, -2>>,
        <<459, 459, 1, -1>>, <<460, 460, 1, -2>>, <<462, 476, 2, -1>>,
        <<477, 477, 1, -79>>, <<479, 495, 2, -1>>, <<498, 498, 1, -1>>,
        <<499, 499, 1, -2>>, <<501, 501, 1, -1>>, <<505, 543, 2, -1>>,
        <<547, 563, 2, -1>>, <<572, 572, 1, -1>>, <<575, 576, 1, 10815>>,
        <<578, 578, 1, -1>>, <<583, 591, 2, -1>>, <<592, 592, 1, 10783>>,
        <<593, 593, 1, 10780>>, <<594, 594, 1, 10782>>, <<595, 595, 1, -210>>,
        <<596, 596, 1, -206>>, <<598, 599, 1, -205>>, <<601, 601, 1, -202>>,
        <<603, 603, 1, -203>>, <<604, 604, 1, 42319>>, <<608, 608, 1, -205>>,
        <<609, 609, 1, 42315>>, <<611, 611, 1, -207>>, <<613, 613, 1, 42280>>,
        <<614, 614, 1, 42308>>, <<616, 616, 1, -209>>, <<617, 617, 1, -211>>,
        <<618, 618, 1, 42308>>, <<619, 619, 1, 10743>>, <<620, 620, 1, 42305>>,
        <<623, 623, 1, -211>>, <<625, 625, 1, 10749>>, <<626, 626, 1, -213>>,
        <<629, 629, 1, -214>>, <<637, 637, 1, 10727>>, <<640, 640, 1, -218>>,
        <<642, 642, 1, 42307>>, <<643, 643, 1, -218>>, <<647, 647, 1, 42282>>,
        <<648, 648, 1, -218>>, <<649, 649, 1, -69>>, <<650, 651, 1, -217>>,
        <<652, 652, 1, -71>>, <<658, 658, 1, -219>>, <<669, 669, 1, 42261>>,
        <<670, 670, 1, 42258>>, <<837, 837, 1, 84>>, <<881, 883, 2, -1>>,
        <<887, 887, 1, -1>>, <<891, 893, 1, 130>>, <<940, 940, 1, -38>>,
        <<941, 943, 1, -37>>, <<945, 961, 1, -32>>, <<962, 962, 1, -31>>,
        <<963, 971, 1, -32>>, <<972, 972, 1, -64>>, <<973, 974, 1, -63>>,
        <<976, 976, 1, -62>>, <<977, 977, 1, -57>>, <<981, 981, 1, -47>>,
        <<982, 982, 1, -54>>, <<983, 983, 1, -8>>, <<985, 1007, 2, -1>>,
        <<1008, 1008, 1, -86>>, <<1009, 1009, 1, -80>>, <<1010, 1010, 1, 7>>,
        <<1011, 1011, 1, -116>>, <<1013, 1013, 1, -96>>, <<1016, 1016, 1, -1>>,
        <<1019, 1019, 1, -1>>, <<1072, 1103, 1, -32>>, <<1104, 1119, 1, -80>>,
        <<1121, 1153, 2, -1>>, <<1163, 1215, 2, -1>>, <<1218, 1230, 2, -1>>,
        <<1231, 1231, 1, -15>>, <<1233, 1327, 2, -1>>, <<1377, 1414, 1, -48>>,
        <<4304, 4346, 1, 3008>>, <<4349, 4351, 1, 3008>>, <<5112, 5117, 1, -8>>,
        <<7296, 7296, 1, -6254>>, <<7297, 7297, 1, -6253>>,
        <<7298, 7298, 1, -6244>>, <<7299, 7300, 1, -6242>>,
        <<7301, 7301, 1, -6243>>, <<7302, 7302, 1, -6236>>,
        <<7303, 7303, 1, -6181>>, <<7304, 7304, 1, 35266>>,
        <<7545, 7545, 1, 35332>>, <<7549, 7549, 1, 3814>>,
        <<7566, 7566, 1, 35384>>, <<7681, 7829, 2, -1>>, <<7835, 7835, 1, -59>>,
        <<7841, 7935, 2, -1>>, <<7936, 7943, 1, 8>>, <<7952, 7957, 1, 8>>,
        <<7968, 7975, 1, 8>>, <<7984, 7991, 1, 8>>, <<8000, 8005, 1, 8>>,
        <<8017, 8023, 2, 8>>, <<8032, 8039, 1, 8>>, <<8048, 8049, 1, 74>>,
        <<8050, 8053, 1, 86>>, <<8054, 8055, 1, 100>>, <<8056, 8057, 1, 128>>,
        <<8058, 8059, 1, 112>>, <<8060, 8061, 1, 126>>, <<8112, 8113, 1, 8>>,
        <<8126, 8126, 1, -7205>>, <<8144, 8145, 1, 8>>, <<8160, 8161, 1, 8>>,
        <<8165, 8165, 1, 7>>, <<8526, 8526, 1, -28>>, <<8560, 8575, 1, -16>>,
        <<8580, 8580, 1, -1>>, <<9424, 9449, 1, -26>>, <<11312, 11359, 1, -48>>,
        <<11361, 11361, 1, -1>>, <<11365, 11365, 1, -10795>>,
        <<11366, 11366, 1, -10792>>, <<11368, 11372, 2, -1>>,
        <<11379, 11379, 1, -1>>, <<11382, 11382, 1, -1>>, <<11393, 11491, 2, -1>>,
        <<11500, 11502, 2, -1>>, <<11507, 11507, 1, -1>>,
        <<11520, 11557, 1, -7264>>, <<11559, 11559, 1, -7264>>,
        <<11565, 11565, 1, -7264>>, <<42561, 42605, 2, -1>>,
        <<42625, 42651, 2, -1>>, <<42787, 42799, 2, -1>>, <<42803, 42863, 2, -1>>,
        <<42874, 42876, 2, -1>>, <<42879, 42887, 2, -1>>, <<42892, 42892, 1, -1>>,
        <<42897, 42899, 2, -1>>, <<42900, 42900, 1, 48>>, <<42903, 42921, 2, -1>>,
        <<42933, 42947, 2, -1>>, <<42952, 42954, 2, -1>>, <<42961, 42961, 1, -1>>,
        <<42967, 42969, 2, -1>>, <<42998, 42998, 1, -1>>,
        <<43859, 43859, 1, -928>>, <<43888, 43967, 1, -38864>>,
        <<65345, 65370, 1, -32>>, <<66600, 66639, 1, -40>>,
        <<66776, 66811, 1, -40>>, <<66967, 67003, 2, -39>>,
        <<66968, 66976, 2, -39>>, <<66980, 66992, 2, -39>>,
        <<66996, 67000, 2, -39>>, <<67004, 67004, 1, -39>>,
        <<68800, 68850, 1, -64>>, <<71872, 71903, 1, -32>>,
        <<93792, 93823, 1, -32>>, <<125218, 125251, 1, -34>> >>

\* the characters whose upper case is a string of several characters, each
\* <<c, upper case of c>>
UpperSpecial ==
    <<  <<223, <<83, 83>>>>, <<329, <<700, 78>>>>, <<496, <<74, 780>>>>,
        <<912, <<921, 776, 769>>>>, <<944, <<933, 776, 769>>>>,
        <<1415, <<1333, 1362>>>>, <<7830, <<72, 817>>>>, <<7831, <<84, 776>>>>,
        <<7832, <<87, 778>>>>, <<7833, <<89, 778>>>>, <<7834, <<65, 702>>>>,
        <<8016, <<933, 787>>>>, <<8018, <<933, 787, 768>>>>,
        <<8020, <<933, 787, 769>>>>, <<8022, <<933, 787, 834>>>>,
        <<8064, <<7944, 921>>>>, <<8065, <<7945, 921>>>>, <<8066, <<7946, 921>>>>,
        <<8067, <<7947, 921>>>>, <<8068, <<7948, 921>>>>, <<8069, <<7949, 921>>>>,
        <<8070, <<7950, 921>>>>, <<8071, <<7951, 921>>>>, <<8072, <<7944, 921>>>>,
        <<8073, <<7945, 921>>>>, <<8074, <<7946, 921>>>>, <<8075, <<7947, 921>>>>,
        <<8076, <<7948, 921>>>>, <<8077, <<7949, 921>>>>, <<8078, <<7950, 921>>>>,
        <<8079, <<7951, 921>>>>, <<8080, <<7976, 921>>>>, <<8081, <<7977, 921>>>>,
        <<8082, <<7978, 921>>>>, <<8083, <<7979, 921>>>>, <<8084, <<7980, 921>>>>,
        <<8085, <<7981, 921>>>>, <<8086, <<7982, 921>>>>, <<8087, <<7983, 921>>>>,
        <<8088, <<7976, 921>>>>, <<8089, <<7977, 921>>>>, <<8090, <<7978, 921>>>>,
        <<8091, <<7979, 921>>>>, <<8092, <<7980, 921>>>>, <<8093, <<7981, 921>>>>,
        <<8094, <<7982, 921>>>>, <<8095, <<7983, 921>>>>, <<8096, <<8040, 921>>>>,
        <<8097, <<8041, 921>>>>, <<8098, <<8042, 921>>>>, <<8099, <<8043, 921>>>>,
        <<8100, <<8044, 921>>>>, <<8101, <<8045, 921>>>>, <<8102, <<8046, 921>>>>,
        <<8103, <<8047, 921>>>>, <<8104, <<8040, 921>>>>, <<8105, <<8041, 921>>>>,
        <<8106, <<8042, 921>>>>, <<8107, <<8043, 921>>>>, <<8108, <<8044, 921>>>>,
        <<8109, <<8045, 921>>>>, <<8110, <<8046, 921>>>>, <<8111, <<8047, 921>>>>,
        <<8114, <<8122, 921>>>>, <<8115, <<913, 921>>>>, <<8116, <<902, 921>>>>,
        <<8118, <<913, 834>>>>, <<8119, <<913, 834, 921>>>>,
        <<8124, <<913, 921>>>>, <<8130, <<8138, 921>>>>, <<8131, <<919, 921>>>>,
        <<8132, <<905, 921>>>>, <<8134, <<919, 834>>>>,
        <<8135, <<919, 834, 921>>>>, <<8140, <<919, 921>>>>,
        <<8146, <<921, 776, 768>>>>, <<8147, <<921, 776, 769>>>>,
        <<8150, <<921, 834>>>>, <<8151, <<921, 776, 834>>>>,
        <<8162, <<933, 776, 768>>>>, <<8163, <<933, 776, 769>>>>,
        <<8164, <<929, 787>>>>, <<8166, <<933, 834>>>>,
        <<8167, <<933, 776, 834>>>>, <<8178, <<8186, 921>>>>,
        <<8179, <<937, 921>>>>, <<8180, <<911, 921>>>>, <<8182, <<937, 834>>>>,
        <<8183, <<937, 834, 921>>>>, <<8188, <<937, 921>>>>, <<64256, <<70, 70>>>>,
        <<64257, <<70, 73>>>>, <<64258, <<70, 76>>>>, <<64259, <<70, 70, 73>>>>,
        <<64260, <<70, 70, 76>>>>, <<64261, <<83, 84>>>>, <<64262, <<83, 84>>>>,
        <<64275, <<1348, 1350>>>>, <<64276, <<1348, 1333>>>>,
        <<64277, <<1348, 1339>>>>, <<64278, <<1358, 1350>>>>,
        <<64279, <<1348, 1341>>>> >>

\* str.upper() on one character, a string of one to three characters
UpperChar(c) ==
    LET x == {i \in DOMAIN UpperSpecial : UpperSpecial[i][1] = c}
        r == {i \in DOMAIN UpperRuns :
                 /\ c >= UpperRuns[i][1]
                 /\ c <= UpperRuns[i][2]
                 /\ (c - UpperRuns[i][1]) % UpperRuns[i][3] = 0}
    IN  IF x # {} THEN UpperSpecial[CHOOSE i \in x : TRUE][2]
        ELSE IF r = {} THEN <<c>>
        ELSE <<c + UpperRuns[CHOOSE i \in r : TRUE][4]>>

\* str.upper()
RECURSIVE Upper(_)
Upper(s) == IF s = <<>> THEN <<>> ELSE UpperChar(Head(s)) \o Upper(Tail(s))

\* self.get(email__iexact=email): the one account whose email equals the
\* argument case-insensitively, DoesNotExist without one, MultipleObjectsReturned
\* with several
get_by_natural_key(email) ==
    LET found == filter_by_similar_email(email)
    IN  IF found = {} THEN [res |-> "DoesNotExist", user |-> 0]
        ELSE IF Cardinality(found) > 1 THEN [res |-> "MultipleObjectsReturned", user |-> 0]
        ELSE [res |-> "ok", user |-> CHOOSE u \in found : TRUE]

active == {u \in DOMAIN users : ~users[u].deleted /\ users[u].is_active}

\* ------------------------------------------------------------- actions
\* the record of a request: what was called on which account with which
\* argument, how it ended, the canonical email, the deleted_at and the number of
\* memberships the account had before it, and the request before it
Request(op, u, res, arg) ==
    [op |-> op, user |-> u, res |-> res, arg |-> arg,
     email0 |-> IF u \in DOMAIN users THEN users[u].email ELSE None,
     deleted_at0 |-> IF u \in DOMAIN users THEN users[u].deleted_at ELSE 0,
     memberships0 |-> Cardinality({m \in memberships : m[2] = u}),
     prev |-> <<last.op, last.user, last.res>>]

\* the request without transaction.atomic: what was written before the
\* exception stays written
Finish_without_rollback(st, op, u, arg) ==
    /\ ops < MaxOps
    /\ \E s \in {st} :
          /\ users' = s.users
          /\ codes' = s.codes
          /\ nextCode' = s.nextCode
          /\ memberships' = s.memberships
          /\ groups' = s.groups
          /\ files' = s.files \cap DOMAIN users'
          /\ sent' = s.sent
          /\ last' = Request(op, u, s.err, arg)
    /\ ops' = ops + 1
    /\ pending' = pending

\* commit the rows of the transaction, or roll them back when an exception is
\* pending
Commit(st) ==
    IF st.err = "ok"
    THEN /\ users' = st.users
         /\ codes' = st.codes
         /\ nextCode' = st.nextCode
         /\ memberships' = st.memberships
         /\ groups' = st.groups
    ELSE UNCHANGED <<users, codes, nextCode, memberships, groups>>

\* the end of a request that is one transaction: the mails handed to the mailer
\* and the photo files deleted before an exception are out either way (files
\* tracks the photo files of the stored accounts: the file written for a row
\* that was never committed is not tracked)
Finish(st, op, u, arg) ==
    /\ ops < MaxOps
    /\ \E s \in {st} :
          /\ Commit(s)
          /\ files' = s.files \cap DOMAIN users'
          /\ sent' = s.sent
          /\ last' = Request(op, u, s.err, arg)
    /\ ops' = ops + 1
    /\ pending' = pending

NextPk == Cardinality(DOMAIN users) + 1

CreateUser(F, P) ==
    /\ ops < MaxOps
    /\ NextPk <= MaxUsers
    /\ \E email \in EmailInputs \cup {None}, p \in P, failAt \in F :
          Finish(create_user_(St0(failAt), NextPk, email, p.password, p.display_name,
                              p.is_active, p.extra_fields),
                 "create_user", NextPk, email)

\* create_superuser up to the return of _create_user, whose transaction is
\* committed or rolled back here; an exception ends the request, otherwise the
\* request holds the instance that _create_user returned and goes on with
\* CreateSuperuserSave, after any number of other requests
CreateSuperuser(F) ==
    /\ ops < MaxOps
    /\ NextPk <= MaxUsers
    /\ \E i \in SuperuserInputs, failAt \in F :
          \E st \in {create_superuser_create_user(St0(failAt), NextPk, i.email, <<112>>,
                                                   i.extra_fields)} :
              /\ Commit(st)
              /\ files' = st.files \cap DOMAIN users'
              /\ sent' = st.sent
              /\ last' = Request("create_superuser", NextPk,
                                 IF st.err = "ok" THEN "running" ELSE st.err, i.email)
              /\ pending' = IF st.err = "ok"
                            THEN pending @@ (NextPk :> st.users[NextPk])
                            ELSE pending
    /\ ops' = ops + 1

\* the rest of a create_superuser: the flags and the second save() of the
\* instance it holds, a statement that is committed on its own or fails on its
\* own; the request ends
CreateSuperuserSave ==
    /\ \E u \in DOMAIN pending :
          \E st \in {create_superuser_save(St0(0), u, pending[u])} :
              /\ Commit(st)
              /\ sent' = st.sent
              /\ last' = Request("create_superuser", u, st.err, pending[u].email)
              /\ pending' = [v \in DOMAIN pending \ {u} |-> pending[v]]
    /\ UNCHANGED <<files, ops>>

VerifyMail(F) ==
    \E u \in DOMAIN users, failAt \in F :
        Finish(verify_mail(St0(failAt), u), "verify_mail", u, None)

UpdateEmail(F) ==
    /\ \E u \in DOMAIN users, e \in EmailInputs, failAt \in F :
        Finish(update_email(St0(failAt), u, e), "update_email", u, e)

RestoreEmail(F) ==
    \E u \in DOMAIN users, failAt \in F :
        Finish(restore_email(St0(failAt), u), "restore_email", u, None)

\* update_language changes the instance and saves nothing: the store is as
\* before
UpdateLanguage ==
    /\ ops < MaxOps
    /\ \E u \in DOMAIN users, l \in {"en", "de"} :
        LET st == update_language(St0(0), u, l)
        IN  /\ sent' = st.sent
            /\ last' = Request("update_language", u, st.err, None)
    /\ ops' = ops + 1
    /\ UNCHANGED <<users, codes, nextCode, memberships, groups, files, pending>>

SendMailVerificationCode(F) ==
    /\ \E u \in DOMAIN users, failAt \in F :
        Finish(send_mail_verification_code(St0(failAt), u), "send_mail_verification_code", u, None)

SendAccountDeletionVerificationCode(F) ==
    /\ \E u \in DOMAIN users, failAt \in F :
        Finish(send_account_deletion_verification_code(St0(failAt), u),
               "send_account_deletion_verification_code", u, None)

ResetPassword(F) ==
    /\ \E u \in DOMAIN users, failAt \in F :
        Finish(reset_password(St0(failAt), u), "reset_password", u, None)

ChangePassword(F) ==
    \E u \in DOMAIN users, p \in PasswordInputs, failAt \in F :
        Finish(change_password(St0(failAt), u, p), "change_password", u, p)

\* timezone.now() is the wall clock at the time of the call, any time
Delete(F) ==
    \E u \in DOMAIN users, t \in 1..MaxTime, failAt \in F :
        Finish(delete_(St0(failAt), u, t), "delete_", u, <<t>>)

\* delete_photo called on its own: the files leave the image store, the
\* attribute of the instance is cleared and not saved, so the stored row is as
\* before
DeletePhoto ==
    /\ ops < MaxOps
    /\ \E u \in DOMAIN users :
        LET st == delete_photo(St0(0), u)
        IN  /\ files' = st.files
            /\ sent' = st.sent
            /\ last' = Request("delete_photo", u, st.err, None)
    /\ ops' = ops + 1
    /\ UNCHANGED <<users, codes, nextCode, memberships, groups, pending>>

\* Group.objects.create(), done by the groups application
CreateGroup ==
    /\ \E g \in Groups \ groups :
        /\ groups' = groups \cup {g}
        /\ last' = Request("create_group", 0, "ok", None)
    /\ sent' = <<>>
    /\ UNCHANGED <<users, codes, nextCode, memberships, files, pending, ops>>

\* GroupMembership.objects.create(group=g, user=u), done by the groups application
JoinGroup ==
    /\ \E u \in DOMAIN users, g \in groups :
        /\ <<g, u>> \notin memberships
        /\ memberships' = memberships \cup {<<g, u>>}
        /\ last' = Request("join_group", u, "ok", None)
    /\ sent' = <<>>
    /\ UNCHANGED <<users, codes, nextCode, groups, files, pending, ops>>

\* a user founds a group and becomes its first member, a request to the groups
\* application
FoundGroup ==
    /\ \E u \in DOMAIN users, g \in Groups \ groups :
        /\ groups' = groups \cup {g}
        /\ memberships' = memberships \cup {<<g, u>>}
        /\ last' = Request("found_group", u, "ok", None)
    /\ sent' = <<>>
    /\ ops < MaxOps
    /\ ops' = ops + 1
    /\ UNCHANGED <<users, codes, nextCode, files, pending>>

Init ==
    /\ users = <<>>
    /\ codes = {}
    /\ nextCode = 1
    /\ memberships = {}
    /\ groups = {}
    /\ files = {}
    /\ pending = [u \in {} |-> NoExtraFields]
    /\ last = [op |-> "init", user |-> 0, res |-> "ok", arg |-> None, email0 |-> None,
               deleted_at0 |-> 0, memberships0 |-> 0, prev |-> <<"init", 0, "ok">>]
    /\ sent = <<>>
    /\ ops = 0

Next ==
    \/ CreateUser({0}, Profiles)
    \/ CreateSuperuser({0})
    \/ CreateSuperuserSave
    \/ VerifyMail({0})
    \/ UpdateEmail({0})
    \/ RestoreEmail({0})
    \/ UpdateLanguage
    \/ SendMailVerificationCode({0})
    \/ SendAccountDeletionVerificationCode({0})
    \/ ResetPassword({0})
    \/ ChangePassword({0})
    \/ Delete({0})
    \/ DeletePhoto

Spec == Init /\ [][Next]_vars

\* sign-ups, deletions and password changes among accounts that join groups
\* and delete their photos
NextGroups ==
    \/ CreateUser({0}, PlainProfiles)
    \/ ChangePassword({0})
    \/ Delete({0})
    \/ DeletePhoto
    \/ CreateGroup
    \/ JoinGroup

SpecGroups == Init /\ [][NextGroups]_vars

\* the requests that send mail, with a mailer that may refuse the first or the
\* second mail of a request
MailFailures == 0..2

NextMail ==
    \/ CreateUser(MailFailures, PlainProfiles)
    \/ UpdateEmail(MailFailures)
    \/ SendAccountDeletionVerificationCode(MailFailures)
    \/ ResetPassword(MailFailures)
    \/ ChangePassword(MailFailures)
    \/ Delete(MailFailures)

SpecMail == Init /\ [][NextMail]_vars

\* the requests that write to the store, with a database that may fail at the
\* second or the third statement of a request, among accounts that found groups
StoreFailures == {-3, -2, 0}

NextStore ==
    \/ CreateUser(StoreFailures, PlainProfiles)
    \/ VerifyMail(StoreFailures)
    \/ UpdateEmail(StoreFailures)
    \/ RestoreEmail(StoreFailures)
    \/ SendAccountDeletionVerificationCode(StoreFailures)
    \/ ResetPassword(StoreFailures)
    \/ ChangePassword(StoreFailures)
    \/ Delete(StoreFailures)
    \/ FoundGroup

SpecStore == Init /\ [][NextStore]_vars

\* ------------------------------------------------------------ properties
CodesOf(u, t) == {c \in codes : c.user = u /\ c.type = t}

CodesAfter(u, t) == {c \in codes' : c.user = u /\ c.type = t}

\* this step is the request op on account u
Acted(op, u) == ops' = ops + 1 /\ last'.op = op /\ last'.user = u

Succeeded(op, u) == Acted(op, u) /\ last'.res = "ok"

\* this step is the second save() of the create_superuser that created account u
Saved(u) == ops' = ops /\ last'.op = "create_superuser" /\ last'.user = u

\* account u has neither the mail_verified flag nor an EMAIL_VERIFICATION code
Unissued(u) == ~users[u].mail_verified /\ CodesOf(u, EMAIL_VERIFICATION) = {}

\* what delete_ leaves of an account and no request of the account changes
Cleared(a) == a.deleted /\ ~a.is_active /\ ~a.is_staff /\ a.description = ""


\* C1 as stated: every account has a pending EMAIL_VERIFICATION code exactly when
\* its mail_verified flag is false.
C1_CodeIffUnverified ==
    \A u \in DOMAIN users :
        (CodesOf(u, EMAIL_VERIFICATION) # {}) <=> ~users[u].mail_verified

\* C1 amended: an account has a pending EMAIL_VERIFICATION code only when its
\* mail_verified flag is false.  An account comes to have neither the flag nor
\* a code by a successful delete_ and by the second save() of its
\* create_superuser only; that save() leaves the flag false, whatever was
\* called on the account before it.
C1_CodeOnlyIfUnverified ==
    [][\A u \in DOMAIN users' :
          /\ users'[u].mail_verified => CodesAfter(u, EMAIL_VERIFICATION) = {}
          /\ Unissued(u)' =>
                 \/ u \in DOMAIN users /\ Unissued(u)
                 \/ Succeeded("delete_", u)
                 \/ Saved(u) /\ last'.res = "ok"
          /\ (Saved(u) /\ last'.res = "ok") => ~users'[u].mail_verified]_vars

\* the second save() of a create_superuser after a verify_mail on the account,
\* beside an account that is unverified and has its code
C1_Witness ==
    /\ last.op = "create_superuser" /\ last.res = "ok"
    /\ last.prev = <<"verify_mail", last.user, "ok">>
    /\ ~users[last.user].deleted
    /\ Unissued(last.user)
    /\ \E v \in DOMAIN users :
           /\ ~users[v].deleted /\ ~users[v].mail_verified
           /\ CodesOf(v, EMAIL_VERIFICATION) # {}

\* C2: a deleted account stays deleted, inactive, not staff and unverified, with
\* an unusable password, an empty description and no unverified_email, whatever
\* is called on it afterwards.
C2_DeletedIsTerminal ==
    \A u \in DOMAIN users :
        users[u].deleted =>
            /\ ~users[u].is_active
            /\ ~users[u].is_staff
            /\ ~users[u].mail_verified
            /\ ~users[u].password.usable
            /\ users[u].description = ""
            /\ users[u].unverified_email = None

\* C2 amended: delete_ leaves the account deleted, inactive and not staff, with
\* an empty description, and so it stays whatever of verify_mail, restore_email,
\* update_email, change_password, reset_password,
\* send_account_deletion_verification_code and delete_ is called on it
\* afterwards (mail_verified, the password and unverified_email do not stay:
\* verify_mail and restore_email set mail_verified, change_password a usable
\* password, update_email and restore_email the unverified_email).  The second
\* save() of the create_superuser that created the account is none of these
\* requests: it writes the instance held since the creation and leaves the
\* account not deleted, active and staff.
C2_DeletedStaysDeleted ==
    [][\A u \in DOMAIN users :
          /\ Succeeded("delete_", u) => Cleared(users'[u])
          /\ (Cleared(users[u]) /\ ~Saved(u)) => Cleared(users'[u])
          /\ (Saved(u) /\ last'.res = "ok") =>
                 /\ ~users'[u].deleted
                 /\ users'[u].is_active
                 /\ users'[u].is_staff]_vars

\* a staff account, deleted and then verified
C2_Witness ==
    /\ last.op = "verify_mail" /\ last.res = "ok"
    /\ last.prev = <<"delete_", last.user, "ok">>
    /\ Cleared(users[last.user])
    /\ users[last.user].mail_verified
    /\ users[last.user].is_superuser

\* C3: right after delete_ the account has no canonical and no pending email, an
\* empty description, an unusable password, is inactive, not staff, unverified,
\* and deleted with deleted_at set.
C3_DeleteClearsAccount ==
    (last.op = "delete_" /\ last.res = "ok") =>
        LET a == users[last.user]
        IN  /\ a.email = None
            /\ a.unverified_email = None
            /\ a.description = ""
            /\ ~a.password.usable
            /\ ~a.is_active
            /\ ~a.is_staff
            /\ ~a.mail_verified
            /\ a.deleted
            /\ a.deleted_at # 0

\* C4: once deleted_at is set no request changes it or clears it, a second
\* delete_ included, and the account stays deleted.
C4_DeletedAtSetOnce ==
    [][\A u \in DOMAIN users :
          users[u].deleted_at # 0 =>
              /\ users'[u].deleted_at = users[u].deleted_at
              /\ users'[u].deleted]_vars

\* C4 amended: every successful delete_, a second one included, writes the time
\* of that call into deleted_at, be it later or earlier than the time it
\* replaces.  Once deleted_at is set no other request of the account changes it
\* or clears it, and the account stays deleted; the second save() of the
\* create_superuser that created the account is none of these requests: it
\* writes the instance held since the creation, whose deleted_at is not set.
C4_DeletedAtIsLastDelete ==
    [][\A u \in DOMAIN users :
          /\ Succeeded("delete_", u) =>
                 /\ users'[u].deleted
                 /\ users'[u].deleted_at # 0
                 /\ <<users'[u].deleted_at>> = last'.arg
          /\ (users[u].deleted_at # 0 /\ ~Saved(u)) =>
                 /\ users'[u].deleted_at # 0
                 /\ users'[u].deleted
                 /\ ~Succeeded("delete_", u) => users'[u].deleted_at = users[u].deleted_at
          /\ (Saved(u) /\ last'.res = "ok") =>
                 /\ users'[u].deleted_at = 0
                 /\ ~users'[u].deleted]_vars

\* a second delete_ at another time than the first
C4_Witness ==
    /\ last.op = "delete_" /\ last.res = "ok"
    /\ last.prev = <<"delete_", last.user, "ok">>
    /\ last.deleted_at0 # 0
    /\ users[last.user].deleted_at # last.deleted_at0
    /\ users[last.user].deleted

IssuedBy ==
    [create_user |-> EMAIL_VERIFICATION,
     create_superuser |-> EMAIL_VERIFICATION,
     update_email |-> EMAIL_VERIFICATION,
     send_mail_verification_code |-> EMAIL_VERIFICATION,
     send_account_deletion_verification_code |-> ACCOUNT_DELETE,
     reset_password |-> PASSWORD_RESET]

\* C5: there is at most one verification code per account and purpose, and right
\* after a request that issues a code of some purpose the account has exactly one
\* code of that purpose, the newest of all codes.
C5_OneCodePerPurpose ==
    /\ \A u \in DOMAIN users, t \in CodeTypes : Cardinality(CodesOf(u, t)) <= 1
    /\ (/\ last.op \in DOMAIN IssuedBy
        /\ last.res = IF last.op = "create_superuser" THEN "running" ELSE "ok") =>
           \E c \in codes :
               /\ CodesOf(last.user, IssuedBy[last.op]) = {c}
               /\ \A d \in codes : d.id <= c.id
               /\ c.id = nextCode - 1

C5_Witness ==
    /\ last.op = "send_account_deletion_verification_code" /\ last.res = "ok"
    /\ last.prev = <<"send_account_deletion_verification_code", last.user, "ok">>
    /\ Cardinality(CodesOf(last.user, ACCOUNT_DELETE)) = 1
    /\ CodesOf(last.user, EMAIL_VERIFICATION) # {}

\* C6: verify_mail on an account without a pending EMAIL_VERIFICATION code fails
\* with DoesNotExist and changes neither the accounts nor the codes.
C6_VerifyWithoutCodeFails ==
    [][\A u \in DOMAIN users :
          (Acted("verify_mail", u) /\ CodesOf(u, EMAIL_VERIFICATION) = {}) =>
              /\ last'.res = "DoesNotExist"
              /\ users' = users
              /\ codes' = codes]_vars

\* C7: a successful verify_mail on an account with a pending EMAIL_VERIFICATION
\* code makes the unverified_email it had the canonical email, sets mail_verified
\* and leaves the account no EMAIL_VERIFICATION code.
C7_VerifyPromotes ==
    [][\A u \in DOMAIN users :
          (Succeeded("verify_mail", u) /\ CodesOf(u, EMAIL_VERIFICATION) # {}) =>
              /\ users'[u].email = users[u].unverified_email
              /\ users'[u].mail_verified
              /\ CodesAfter(u, EMAIL_VERIFICATION) = {}]_vars

\* the promoted address "A@X" is stored only by update_email and verify_mail
C7_Witness ==
    /\ last.op = "verify_mail" /\ last.res = "ok"
    /\ last.prev = <<"update_email", last.user, "ok">>
    /\ users[last.user].email = <<65, 64, 88>>
    /\ last.email0 # <<65, 64, 88>>
    /\ users[last.user].mail_verified
    /\ CodesOf(last.user, EMAIL_VERIFICATION) = {}

\* C8: right after a successful create_user the new account has exactly one
\* EMAIL_VERIFICATION code, is unverified, and holds the normalized email (the
\* address with its domain in lower case) as email and as unverified_email.
C8_CreateUserResult ==
    (last.op = "create_user" /\ last.res = "ok") =>
        LET a == users[last.user]
        IN  /\ Cardinality(CodesOf(last.user, EMAIL_VERIFICATION)) = 1
            /\ ~a.mail_verified
            /\ a.email = normalize_email(last.arg)
            /\ a.unverified_email = a.email
            /\ last.arg = <<65, 64, 88>> => a.email = <<65, 64, 120>>
            /\ last.arg = <<97, 64, 120>> => a.email = <<97, 64, 120>>

C8_Witness ==
    /\ last.op = "create_user" /\ last.res = "ok"
    /\ last.arg = <<65, 64, 88>>
    /\ users[last.user].email = <<65, 64, 120>>
    /\ users[last.user].unverified_email = <<65, 64, 120>>
    /\ Cardinality(CodesOf(last.user, EMAIL_VERIFICATION)) = 1

\* C9: create_user without an email fails with ValueError, creates no account,
\* issues no code and sends no mail.
C9_CreateWithoutEmailFails ==
    [][(ops' = ops + 1 /\ last'.op = "create_user" /\ last'.arg = None) =>
          /\ last'.res = "ValueError"
          /\ users' = users
          /\ codes' = codes
          /\ nextCode' = nextCode
          /\ sent' = <<>>]_vars

C9_Witness ==
    /\ last.op = "create_user" /\ last.arg = None /\ last.res = "ValueError"
    /\ last.user \notin DOMAIN users
    /\ sent = <<>>

\* C10: update_email followed at once by restore_email, on an account with a
\* canonical email, leaves the canonical email as it was before update_email,
\* unverified_email equal to it, mail_verified true and no EMAIL_VERIFICATION
\* code.
C10_UpdateThenRestore ==
    [][\A u \in DOMAIN users :
          (/\ last.op = "update_email" /\ last.user = u /\ last.res = "ok"
           /\ last.email0 # None
           /\ Succeeded("restore_email", u)) =>
              /\ users'[u].email = last.email0
              /\ users'[u].unverified_email = last.email0
              /\ users'[u].mail_verified
              /\ CodesAfter(u, EMAIL_VERIFICATION) = {}]_vars

C10_Witness ==
    /\ last.op = "restore_email" /\ last.res = "ok"
    /\ last.prev = <<"update_email", last.user, "ok">>
    /\ users[last.user].email # None
    /\ users[last.user].unverified_email = users[last.user].email
    /\ users[last.user].mail_verified
    /\ CodesOf(last.user, EMAIL_VERIFICATION) = {}

\* C11: after delete_ the account is a member of no group, every group record
\* still exists, and the memberships of every other account are as before.
C11_DeleteLeavesGroups ==
    [][\A u \in DOMAIN users :
          Succeeded("delete_", u) =>
              /\ {m \in memberships' : m[2] = u} = {}
              /\ groups' = groups
              /\ {m \in memberships' : m[2] # u} = {m \in memberships : m[2] # u}]_vars

C11_Witness ==
    /\ last.op = "delete_" /\ last.res = "ok"
    /\ last.memberships0 = 2
    /\ groups = Groups
    /\ {m \in memberships : m[2] = last.user} = {}
    /\ \E v \in DOMAIN users : v # last.user /\ <<"g1", v>> \in memberships

\* C12: no two accounts have canonical emails that are equal case-insensitively,
\* so the lookup by natural key matches at most one account.
C12_NoSimilarEmails ==
    /\ \A u, v \in DOMAIN users :
           (u # v /\ users[u].email # None /\ users[v].email # None) =>
               Lower(users[u].email) # Lower(users[v].email)
    /\ \A e \in EmailInputs : Cardinality(filter_by_similar_email(e)) <= 1

\* C13: right after a successful create_user with email E, the lookup by natural
\* key with E in upper case returns the account just created.
C13_LookupAfterCreate ==
    (last.op = "create_user" /\ last.res = "ok") =>
        get_by_natural_key(Upper(last.arg)) = [res |-> "ok", user |-> last.user]

StoreOps == {"create_user", "verify_mail", "update_email", "restore_email",
             "send_account_deletion_verification_code", "reset_password",
             "change_password", "delete_"}

\* C14: a request that writes to the store is all-or-nothing: when a statement
\* inside it fails, the account rows, the verification codes and the memberships
\* are exactly as before the request.
C14_AllOrNothing ==
    [][\A u \in 1..MaxUsers, op \in StoreOps :
          (Acted(op, u) /\ last'.res # "ok") =>
              /\ users' = users
              /\ codes' = codes
              /\ memberships' = memberships]_vars

C14_Witness ==
    /\ last.op = "change_password" /\ last.res = "DatabaseError"
    /\ sent = <<[user |-> last.user, tpl |-> "passwordchange"]>>
    /\ users[last.user].password = make_password(<<112>>)
    /\ CodesOf(last.user, PASSWORD_RESET) # {}
    /\ \E g \in Groups : <<g, last.user>> \in memberships

\* C15: a mail that fails inside a request does not undo what the request wrote
\* before it: the account fields and the verification code the request wrote are
\* in the store after the failed delivery.
C15_MailFailureKeepsWrites ==
    [][\A u \in 1..MaxUsers :
          /\ (Acted("create_user", u) /\ last'.res = "MailError") =>
                 u \in DOMAIN users'
          /\ (Acted("update_email", u) /\ last'.res = "MailError") =>
                 users'[u].unverified_email = last'.arg
          /\ (Acted("send_account_deletion_verification_code", u) /\ last'.res = "MailError") =>
                 CodesAfter(u, ACCOUNT_DELETE) \ codes # {}
          /\ (Acted("reset_password", u) /\ last'.res = "MailError") =>
                 CodesAfter(u, PASSWORD_RESET) \ codes # {}
          /\ (Acted("change_password", u) /\ last'.res = "MailError") =>
                 users'[u].password = make_password(last'.arg)
          /\ (Acted("delete_", u) /\ last'.res = "MailError") =>
                 users'[u].deleted]_vars

\* C16: right after a successful change_password the account holds the new
\* password and has no PASSWORD_RESET code, so a code that reset_password issued
\* before is gone.
C16_ChangePasswordClearsReset ==
    (last.op = "change_password" /\ last.res = "ok") =>
        /\ users[last.user].password = make_password(last.arg)
        /\ CodesOf(last.user, PASSWORD_RESET) = {}

C16_Witness ==
    /\ last.op = "change_password" /\ last.res = "ok"
    /\ last.prev = <<"reset_password", last.user, "ok">>
    /\ users[last.user].password = [usable |-> TRUE, hash |-> <<113>>]
    /\ CodesOf(last.user, PASSWORD_RESET) = {}
    /\ CodesOf(last.user, EMAIL_VERIFICATION) # {}

\* the purpose whose codes a request deletes or issues
PurposeOf ==
    [verify_mail |-> EMAIL_VERIFICATION,
     restore_email |-> EMAIL_VERIFICATION,
     update_email |-> EMAIL_VERIFICATION,
     send_mail_verification_code |-> EMAIL_VERIFICATION,
     send_account_deletion_verification_code |-> ACCOUNT_DELETE,
     reset_password |-> PASSWORD_RESET,
     change_password |-> PASSWORD_RESET]

\* C17: a request that deletes or issues codes of one purpose for an account
\* leaves that account's codes of the other two purposes and every code of every
\* other account as they were.
C17_PurposesIndependent ==
    [][\A u \in DOMAIN users, op \in DOMAIN PurposeOf :
          Acted(op, u) =>
              {c \in codes' : ~(c.user = u /\ c.type = PurposeOf[op])}
                  = {c \in codes : ~(c.user = u /\ c.type = PurposeOf[op])}]_vars

C17_Witness ==
    /\ last.op = "reset_password" /\ last.res = "ok"
    /\ CodesOf(last.user, PASSWORD_RESET) # {}
    /\ CodesOf(last.user, EMAIL_VERIFICATION) # {}
    /\ CodesOf(last.user, ACCOUNT_DELETE) # {}
    /\ \E v \in DOMAIN users : v # last.user /\ CodesOf(v, EMAIL_VERIFICATION) # {}

\* C18: a successful update_email(new) leaves the account with unverified_email
\* new, mail_verified false and exactly one EMAIL_VERIFICATION code, has sent the
\* notice of the change and then the verification mail, and has left the
\* canonical email as it was; the pending address of an account becomes its
\* canonical email by a successful verify_mail only.
C18_UpdateEmailPending ==
    [][\A u \in DOMAIN users :
          /\ Succeeded("update_email", u) =>
                 /\ users'[u].unverified_email = last'.arg
                 /\ ~users'[u].mail_verified
                 /\ Cardinality(CodesAfter(u, EMAIL_VERIFICATION)) = 1
                 /\ sent' = <<[tpl |-> "changemail_notice", user |-> u],
                              [tpl |-> "mailverification", user |-> u]>>
                 /\ users'[u].email = users[u].email
          /\ (/\ users'[u].email # users[u].email
              /\ users'[u].email = users[u].unverified_email) =>
                 Succeeded("verify_mail", u)]_vars

\* C19: delete_ leaves the verification codes of all three purposes exactly as
\* they were before the call.
C19_DeleteKeepsCodes ==
    [][\A u \in DOMAIN users : Acted("delete_", u) => codes' = codes]_vars

C19_Witness ==
    /\ last.op = "delete_" /\ last.res = "ok"
    /\ users[last.user].deleted
    /\ CodesOf(last.user, EMAIL_VERIFICATION) # {}
    /\ CodesOf(last.user, ACCOUNT_DELETE) # {}
    /\ CodesOf(last.user, PASSWORD_RESET) # {}

\* C20: has_perm and has_module_perms return the is_superuser flag of the
\* account; the flag of an account is changed by the second save() of the
\* create_superuser that created it, which sets it, and by no other step, so
\* the permissions of an account are the same before and after delete_.
C20_PermissionIsSuperuser ==
    [][\A u \in DOMAIN users' :
          /\ has_perm(u)' = users'[u].is_superuser
          /\ has_module_perms(u)' = users'[u].is_superuser
          /\ u \in DOMAIN users =>
                 /\ users'[u].is_superuser # users[u].is_superuser =>
                        /\ Saved(u) /\ last'.res = "ok"
                        /\ users'[u].is_superuser
                 /\ Acted("delete_", u) =>
                        /\ has_perm(u)' = has_perm(u)
                        /\ has_module_perms(u)' = has_module_perms(u)]_vars

\* an account that create_superuser has made a superuser and delete_ has
\* deleted, beside an account without permissions
C20_Witness ==
    /\ last.op = "delete_" /\ last.res = "ok"
    /\ last.prev = <<"create_superuser", last.user, "ok">>
    /\ users[last.user].deleted
    /\ ~users[last.user].is_staff
    /\ users[last.user].is_superuser
    /\ has_perm(last.user)
    /\ has_module_perms(last.user)
    /\ \E v \in DOMAIN users : ~has_perm(v) /\ ~users[v].is_superuser

====
